---- MODULE Spec2Model ----
(***************************************************************************)
(* Streaming debate coordinator of llm_server.py: run_debate_streaming,    *)
(* agent_node_streaming, round_coordinator, synthesizer_node_streaming,    *)
(* the endpoints debate_stream and stop_debate, and the process-wide flag  *)
(* debate_cancelled.                                                       *)
(*                                                                         *)
(* A session is one async generator.  It is suspended at each `yield` and  *)
(* at `await asyncio.sleep`; one action of the model is the code that runs *)
(* from one suspension point to the next.  The gateway call llm.invoke is  *)
(* modelled as a step of its own (issued, then returned or failed) so that *)
(* a stop_debate arriving while a call is in flight is a behaviour of the  *)
(* model.  Texts are sequences of one-character strings.                   *)
(*                                                                         *)
(* Also modelled: the concurrent round of engine.py (DebateEngine          *)
(* dispatching one task per agent of the AgentFactory registry and         *)
(* gathering them), in SpecEngine, and the verdict extraction of           *)
(* synthesizer_node_streaming applied to a range of synthesis texts, in    *)
(* SpecVerdict.                                                            *)
(*                                                                         *)
(* The workflow of graph.py (debate_round, should_continue,                *)
(* synthesize_verdict over the engine's round and                          *)
(* Synthesizer.generate_verdict) is SpecGraph, and full_debate of          *)
(* main_updated.py is SpecOneshot.  SpecPaths has the runs of the          *)
(* streaming session and of the workflow side by side.                     *)
(***************************************************************************)
EXTENDS Integers, Sequences, FiniteSets, TLC

VARIABLES
    debate_cancelled,   \* the global flag (llm_server.py:27)
    pc,                 \* per session: the suspension point of the generator
    request,            \* per session: the DebateRequest received
    args,               \* per session: (topic, num_rounds) bound by debate_stream
    state,              \* per session: the DebateState dict of run_debate_streaming
    round_num,          \* per session: loop variable of `for round_num in range`
    agent_idx,          \* per session: position of `for agent in AGENTS` (1-based)
    events,             \* per session: the events yielded so far
    calls,              \* per session: the gateway calls issued so far
    replies,            \* per session: what the gateway did with each call
    nfail,              \* per session: gateway failures so far
    stops,              \* number of stop_debate calls so far
    stopAt,             \* per session: Len(events) at the first stop_debate
                        \* that arrived while the session was streaming (0: none)
    observed,           \* per session: a check of run_debate_streaming found
                        \* the flag set
    engine,             \* the DebateEngine of engine.py: the DebateState it
                        \* works on and the tasks of the round being gathered
    probe,              \* one application of a pure function of the program:
                        \* its argument and, once applied, its result
    workflow,           \* the graph of graph.py: the node about to run and the
                        \* DebateState passed between the nodes
    oneshot             \* one request to full_debate of main_updated.py: its
                        \* position, what it has collected and how it ended

vars == <<debate_cancelled, pc, request, args, state, round_num, agent_idx,
          events, calls, replies, nfail, stops, stopAt, observed, engine,
          probe, workflow, oneshot>>

----------------------------------------------------------------------------
(* Bounds of the model *)

NumAgents == 3
MaxRounds == 2
MaxFailures == 3
MaxStops == 1

(* Program constants *)

DefaultRounds == 3
StanceWindow == 200

AllSessions == {1, 2}

----------------------------------------------------------------------------
(* Texts *)

Last(s) == s[Len(s)]

Min(a, b) == IF a <= b THEN a ELSE b

\* str[:n]
Take(text, n) == SubSeq(text, 1, Min(n, Len(text)))

\* The characters str.strip() removes: the ASCII whitespace (space, \t, \n,
\* \r, \f, U+000B), the separators U+001C..U+001F, NEL U+0085, the no-break
\* space U+00A0 and the ogham space U+1680.  The texts of the model are written
\* over the characters U+0000..U+00FF and U+1680; the remaining Unicode spaces
\* (U+2000..U+200A, U+2028, U+2029, U+202F, U+205F, U+3000) are not in it.
IsSpace(c) ==
    c \in { " ", "\t", "\n", "\r", "\f", "", "", "", "", "",
            "", " ", " " }

\* str.strip()
RECURSIVE LStrip(_)
LStrip(text) ==
    IF text # <<>> /\ IsSpace(Head(text)) THEN LStrip(Tail(text)) ELSE text

RECURSIVE RStrip(_)
RStrip(text) ==
    IF text # <<>> /\ IsSpace(Last(text))
    THEN RStrip(SubSeq(text, 1, Len(text) - 1))
    ELSE text

Strip(text) == RStrip(LStrip(text))

\* The lower-case form of one character: the letters A..Z and the upper-case
\* letters of U+00C0..U+00DE (all but the sign U+00D7) have one; every other
\* character of U+0000..U+00FF is its own.
LowerChar(c) ==
    CASE c = "A" -> "a" [] c = "B" -> "b" [] c = "C" -> "c" [] c = "D" -> "d"
      [] c = "E" -> "e" [] c = "F" -> "f" [] c = "G" -> "g" [] c = "H" -> "h"
      [] c = "I" -> "i" [] c = "J" -> "j" [] c = "K" -> "k" [] c = "L" -> "l"
      [] c = "M" -> "m" [] c = "N" -> "n" [] c = "O" -> "o" [] c = "P" -> "p"
      [] c = "Q" -> "q" [] c = "R" -> "r" [] c = "S" -> "s" [] c = "T" -> "t"
      [] c = "U" -> "u" [] c = "V" -> "v" [] c = "W" -> "w" [] c = "X" -> "x"
      [] c = "Y" -> "y" [] c = "Z" -> "z" [] c = "À" -> "à" [] c = "Á" -> "á"
      [] c = "Â" -> "â" [] c = "Ã" -> "ã" [] c = "Ä" -> "ä" [] c = "Å" -> "å"
      [] c = "Æ" -> "æ" [] c = "Ç" -> "ç" [] c = "È" -> "è" [] c = "É" -> "é"
      [] c = "Ê" -> "ê" [] c = "Ë" -> "ë" [] c = "Ì" -> "ì" [] c = "Í" -> "í"
      [] c = "Î" -> "î" [] c = "Ï" -> "ï" [] c = "Ð" -> "ð" [] c = "Ñ" -> "ñ"
      [] c = "Ò" -> "ò" [] c = "Ó" -> "ó" [] c = "Ô" -> "ô" [] c = "Õ" -> "õ"
      [] c = "Ö" -> "ö" [] c = "Ø" -> "ø" [] c = "Ù" -> "ù" [] c = "Ú" -> "ú"
      [] c = "Û" -> "û" [] c = "Ü" -> "ü" [] c = "Ý" -> "ý" [] c = "Þ" -> "þ"
      [] OTHER -> c

\* str.lower() on the characters U+0000..U+00FF, where it maps character by
\* character and keeps the length of the text.
Lower(text) == [i \in 1..Len(text) |-> LowerChar(text[i])]

\* word in text
Contains(text, word) ==
    \E i \in 0..(Len(text) - Len(word)) :
        \A j \in 1..Len(word) : text[i + j] = word[j]

AnyIn(text, words) == \E w \in words : Contains(text, w)

----------------------------------------------------------------------------
(* Keyword lists *)

SupportWords ==
    { <<"s", "u", "p", "p", "o", "r", "t">>, <<"a", "p", "p", "r", "o", "v", "e">>,
      <<"f", "a", "v", "o", "r">>, <<"y", "e", "s">>, <<"a", "g", "r", "e", "e">>,
      <<"p", "o", "s", "i", "t", "i", "v", "e">> }

OpposeWords ==
    { <<"o", "p", "p", "o", "s", "e">>, <<"a", "g", "a", "i", "n", "s", "t">>,
      <<"r", "e", "j", "e", "c", "t">>, <<"n", "o">>,
      <<"d", "i", "s", "a", "g", "r", "e", "e">>,
      <<"n", "e", "g", "a", "t", "i", "v", "e">> }

\* Mutant of ApproveWords: only "proceed" counts as approval.
ApproveWords_ProceedOnly == { <<"p", "r", "o", "c", "e", "e", "d">> }

ApproveWords ==
    { <<"a", "p", "p", "r", "o", "v", "e">>, <<"p", "r", "o", "c", "e", "e", "d">> }

RejectWords ==
    { <<"r", "e", "j", "e", "c", "t">>, <<"d", "e", "c", "l", "i", "n", "e">> }

ModifyWords ==
    { <<"m", "o", "d", "i", "f", "y">>,
      <<"c", "o", "n", "d", "i", "t", "i", "o", "n", "a", "l">> }

SynthesisUnavailable ==
    <<"S", "y", "n", "t", "h", "e", "s", "i", "s", " ", "u", "n", "a", "v", "a",
      "i", "l", "a", "b", "l", "e">>

----------------------------------------------------------------------------
(* What the gateway (llm.invoke) may return *)

\* " Yes, I support it. "
AgentTexts ==
    { <<" ", "Y", "e", "s", ",", " ", "I", " ", "s", "u", "p", "p", "o", "r", "t",
        " ", "i", "t", ".", " ">> }

\* "We APPROVE. ",  "Modify it",  "Hold"  and the blank text "\r\n"
SynthTexts ==
    { <<"W", "e", " ", "A", "P", "P", "R", "O", "V", "E", ".", " ">>,
      <<"M", "o", "d", "i", "f", "y", " ", "i", "t">>,
      <<"H", "o", "l", "d">>,
      <<"\r", "\n">> }

\* The topics and the `rounds` values a DebateRequest may carry; an Optional[int]
\* is <<>> (None) or <<n>>.
Topics == { "", "T" }

RoundsValues == { <<>> } \cup { <<n>> : n \in -1..MaxRounds }

----------------------------------------------------------------------------
(* Agents *)

AgentNames ==
    << "Finance", "Market", "Innovator", "Risk Manager", "Devils Advocate",
       "Operator" >>

\* The roster the rounds iterate over: the first NumAgents entries of the list.
AGENTS == SubSeq(AgentNames, 1, NumAgents)

SYNTHESIZER == "Synthesizer"

\* The state dict run_debate_streaming starts from.
InitialState(topic, num_rounds) ==
    [ topic |-> topic,
      current_round |-> 1,
      max_rounds |-> num_rounds,
      agent_responses |-> <<>>,
      all_rounds |-> <<>>,
      synthesis |-> <<>>,
      verdict |-> "",
      current_agent_index |-> 0 ]

\* `request.rounds or 3`
RoundsOrDefault(rounds) ==
    IF rounds = <<>> \/ rounds[1] = 0 THEN DefaultRounds ELSE rounds[1]

\* The lines of a prompt that list responses: "<agent>: <response>".
SaidLines(responses) ==
    [ i \in 1..Len(responses) |->
        [ agent |-> responses[i].agent, response |-> responses[i].response ] ]

\* The "=== PREVIOUS DISCUSSIONS ===" part of a prompt: one block per non-empty
\* entry of all_rounds, headed by its 1-based position in the list.
PreviousBlocks(all_rounds) ==
    LET idx == SelectSeq([i \in 1..Len(all_rounds) |-> i],
                         LAMBDA i : all_rounds[i] # <<>>)
    IN  [ k \in 1..Len(idx) |->
            [ round |-> idx[k], said |-> SaidLines(all_rounds[idx[k]]) ] ]

TaskFor(current_round) ==
    IF current_round = 1 THEN "round1"
    ELSE IF current_round = 2 THEN "round2"
    ELSE "final"

\* Mutant of create_agent_prompt: the responses of the current round are listed
\* newest first.
create_agent_prompt_NewestFirst(agent, st) ==
    [ system |-> agent,
      topic |-> st.topic,
      current_round |-> st.current_round,
      max_rounds |-> st.max_rounds,
      previous |-> IF st.current_round > 1 /\ st.all_rounds # <<>>
                   THEN PreviousBlocks(st.all_rounds) ELSE <<>>,
      current |-> LET said == SaidLines(st.agent_responses)
                  IN  [ i \in 1..Len(said) |-> said[Len(said) + 1 - i] ],
      task |-> TaskFor(st.current_round) ]

\* create_agent_prompt: the prompt as a record of its parts, in text order.
create_agent_prompt(agent, st) ==
    [ system |-> agent,
      topic |-> st.topic,
      current_round |-> st.current_round,
      max_rounds |-> st.max_rounds,
      previous |-> IF st.current_round > 1 /\ st.all_rounds # <<>>
                   THEN PreviousBlocks(st.all_rounds) ELSE <<>>,
      current |-> SaidLines(st.agent_responses),
      task |-> TaskFor(st.current_round) ]

\* Stance detection of agent_node_streaming.
StanceOf(response) ==
    LET first_200 == Take(Lower(response), StanceWindow)
    IN  IF AnyIn(first_200, SupportWords) THEN "Support"
        ELSE IF AnyIn(first_200, OpposeWords) THEN "Oppose"
        ELSE "Neutral"

\* The agent_response dict agent_node_streaming builds from a gateway result.
AgentResponseOf(agent, st, response) ==
    [ agent |-> agent,
      round |-> st.current_round,
      stance |-> StanceOf(response),
      arguments |-> <<>>,
      response |-> Strip(response) ]

\* Mutant of round_coordinator: the new record replaces the records of the
\* earlier rounds.
round_coordinator_KeepsLastOnly(st) ==
    IF st.agent_responses # <<>>
    THEN IF st.current_round < st.max_rounds
         THEN [ st EXCEPT !.all_rounds = <<st.agent_responses>>,
                          !.agent_responses = <<>>,
                          !.current_round = st.current_round + 1,
                          !.current_agent_index = 0 ]
         ELSE [ st EXCEPT !.all_rounds = <<st.agent_responses>>,
                          !.agent_responses = <<>> ]
    ELSE st

\* Mutant of round_coordinator: the responses of the last round are dropped
\* instead of being appended to all_rounds.
round_coordinator_NoFinalAppend(st) ==
    IF st.agent_responses # <<>>
    THEN IF st.current_round < st.max_rounds
         THEN [ st EXCEPT !.all_rounds = Append(st.all_rounds, st.agent_responses),
                          !.agent_responses = <<>>,
                          !.current_round = st.current_round + 1,
                          !.current_agent_index = 0 ]
         ELSE [ st EXCEPT !.agent_responses = <<>> ]
    ELSE st

\* round_coordinator followed by state.update(new_state).
round_coordinator(st) ==
    IF st.agent_responses # <<>>
    THEN LET new_all_rounds == Append(st.all_rounds, st.agent_responses)
         IN  IF st.current_round < st.max_rounds
             THEN [ st EXCEPT !.all_rounds = new_all_rounds,
                              !.agent_responses = <<>>,
                              !.current_round = st.current_round + 1,
                              !.current_agent_index = 0 ]
             ELSE [ st EXCEPT !.all_rounds = new_all_rounds,
                              !.agent_responses = <<>> ]
    ELSE st

\* The transcript of the synthesizer's prompt: a heading for every entry of
\* all_rounds, then its responses.
Transcript(all_rounds) ==
    [ i \in 1..Len(all_rounds) |->
        [ round |-> i,
          said |-> [ k \in 1..Len(all_rounds[i]) |->
                       [ agent |-> all_rounds[i][k].agent,
                         stance |-> all_rounds[i][k].stance,
                         response |-> all_rounds[i][k].response ] ] ] ]

SynthesizerPrompt(st) ==
    [ system |-> SYNTHESIZER, topic |-> st.topic,
      transcript |-> Transcript(st.all_rounds) ]

\* Mutant of VerdictOf: the reject group is looked for before the approve group.
VerdictOf_RejectFirst(synthesis_response) ==
    LET verdict_text == Lower(synthesis_response)
    IN  IF AnyIn(verdict_text, RejectWords) THEN "REJECTED"
        ELSE IF AnyIn(verdict_text, ApproveWords) THEN "APPROVED"
        ELSE IF AnyIn(verdict_text, ModifyWords) THEN "CONDITIONAL APPROVAL"
        ELSE "UNDER REVIEW"

\* Verdict extraction of synthesizer_node_streaming.
VerdictOf(synthesis_response) ==
    LET verdict_text == Lower(synthesis_response)
    IN  IF AnyIn(verdict_text, ApproveWords) THEN "APPROVED"
        ELSE IF AnyIn(verdict_text, RejectWords) THEN "REJECTED"
        ELSE IF AnyIn(verdict_text, ModifyWords) THEN "CONDITIONAL APPROVAL"
        ELSE "UNDER REVIEW"

\* The result of synthesizer_node_streaming when the gateway returns.
SynthesisResult(synthesis_response) ==
    [ synthesis |-> Strip(synthesis_response),
      verdict |-> VerdictOf(synthesis_response) ]

\* The result of synthesizer_node_streaming when the gateway raises.
SynthesisFailure ==
    [ synthesis |-> SynthesisUnavailable,
      verdict |-> "Unable to generate verdict" ]

----------------------------------------------------------------------------
(* Events: what the generator yields, without the "data: " framing *)

EvStart(topic, rounds) == [ type |-> "start", topic |-> topic, rounds |-> rounds ]
EvCancelled == [ type |-> "cancelled" ]
EvRoundStart(n) == [ type |-> "round_start", round |-> n ]
EvAgentStart(agent, n) == [ type |-> "agent_start", agent |-> agent, round |-> n ]
EvAgentResponse(resp) == [ type |-> "agent_response", data |-> resp ]
EvRoundComplete(n) == [ type |-> "round_complete", round |-> n ]
EvSynthesisStart == [ type |-> "synthesis_start" ]
EvSynthesis(result) == [ type |-> "synthesis", data |-> result ]
EvComplete == [ type |-> "complete" ]

\* The positions at which a generator that has started and not finished is
\* suspended.
Streaming ==
    { "y_start", "y_round_start", "y_agent_start", "in_call", "y_agent_response",
      "sleep", "y_round_complete", "y_synthesis_start", "in_synth_call",
      "y_synthesis", "y_cancelled", "y_complete" }

\* What the gateway did with a call: returned a text, or raised.
Returned(text) == [ok |-> TRUE, text |-> text]
Raised == [ok |-> FALSE, text |-> <<>>]

Emit(s, ev) == events' = [events EXCEPT ![s] = Append(@, ev)]

\* `if debate_cancelled:` as run_debate_streaming and agent_node_streaming read it.
CancelRequested == debate_cancelled

----------------------------------------------------------------------------
(* Synthesis texts to classify *)

RecommendApprove ==
    <<"w", "e", " ", "r", "e", "c", "o", "m", "m", "e", "n", "d", " ", "y",
        "o", "u", " ", "a", "p", "p", "r", "o", "v", "e", " ", "t", "h", "i",
        "s", " ", "p", "l", "a", "n">>

ShouldBeRejected ==
    <<"t", "h", "i", "s", " ", "s", "h", "o", "u", "l", "d", " ", "b", "e",
        " ", "r", "e", "j", "e", "c", "t", "e", "d">>

ApproveWithModifications ==
    <<"a", "p", "p", "r", "o", "v", "e", " ", "w", "i", "t", "h", " ", "m",
        "o", "d", "i", "f", "i", "c", "a", "t", "i", "o", "n", "s">>

\* Pieces of synthesis text: each keyword of each group (some capitalised), a
\* word that is no keyword, and three sentences.
VerdictFragments ==
    { <<"a", "p", "p", "r", "o", "v", "e">>,
      <<"P", "R", "O", "C", "E", "E", "D">>,
      <<"r", "e", "j", "e", "c", "t">>,
      <<"D", "e", "c", "l", "i", "n", "e">>,
      <<"m", "o", "d", "i", "f", "y">>,
      <<"C", "o", "n", "d", "i", "t", "i", "o", "n", "a", "l">>,
      <<"h", "o", "l", "d">>,
      RecommendApprove, ShouldBeRejected, ApproveWithModifications }

MaxFragments == 3

\* The texts made of n pieces separated by a space.
RECURSIVE TextsOf(_)
TextsOf(n) ==
    IF n = 1 THEN VerdictFragments
    ELSE { a \o <<" ">> \o b : a \in TextsOf(n - 1), b \in VerdictFragments }

VerdictInputs == UNION { TextsOf(n) : n \in 1..MaxFragments }

NoProbe == [ fn |-> "none", arg |-> <<>>, result |-> "", applied |-> FALSE ]

----------------------------------------------------------------------------
(* engine.py: DebateEngine, dispatching to the AgentFactory registry *)

\* The keys of AgentFactory.agents, in insertion order.
RegistryNames ==
    << "Economic Analyst", "Tech Innovator", "Risk Manager", "Customer Advocate",
       "Sustainability Expert", "Implementation Strategist" >>

\* AgentFactory.get_all_agents(): the first NumAgents keys of the registry.
get_all_agents == SubSeq(RegistryNames, 1, NumAgents)

\* What the gateway answers to the call made for agent_name in round n.
ContentFor(agent_name, n) ==
    [ kind |-> "content", by |-> agent_name, round |-> n ]

\* "Error generating response: ..."
ErrorResponse == [ kind |-> "error" ]

\* The result of a task that has not finished.
Pending == [ kind |-> "pending" ]

\* `agent_name in self.agents`
RegisteredAgents == { RegistryNames[i] : i \in DOMAIN RegistryNames }

\* An exception that leaves get_agent_response and reaches its caller.
Propagates(exc) == [ kind |-> "raised", exc |-> exc ]

\* What the gateway call inside get_agent_response may do: return a reply,
\* raise an Exception, or raise an exception that is no Exception
\* (KeyboardInterrupt, SystemExit).
GatewayOutcomes == { "return", "raise", "interrupt" }

\* AgentFactory.get_agent_response: ValueError for a name that is not a key of
\* the registry, raised before any gateway call; otherwise the content of the
\* gateway's reply, the error text when the gateway raises an Exception, and the
\* exception itself when it is no Exception, which `except Exception` lets pass.
get_agent_response(agent_name, n, outcome) ==
    IF agent_name \notin RegisteredAgents THEN Propagates("ValueError")
    ELSE CASE outcome = "return"    -> ContentFor(agent_name, n)
           [] outcome = "raise"     -> ErrorResponse
           [] outcome = "interrupt" -> Propagates("BaseException")

\* f"Round {round_num} | {agent_name}: {response}"
HistoryEntry(n, agent_name, response) ==
    [ round |-> n, agent |-> agent_name, response |-> response ]

\* The tasks of a round: one per registered agent, every one given the same
\* topic, round number and history.
TasksFor(st) ==
    [ i \in 1..Len(get_all_agents) |->
        [ agent_name |-> get_all_agents[i],
          topic |-> st.topic,
          round_num |-> st.round,
          history |-> st.history,
          result |-> Pending ] ]

\* Mutant of GatherResults: the results in the order the tasks finished.
GatherResults_AsCompleted(tasks, order) ==
    [ i \in 1..Len(tasks) |-> tasks[order[i]].result ]

\* asyncio.gather(*tasks): the results in the order of the tasks.
GatherResults(tasks, order) == [ i \in 1..Len(tasks) |-> tasks[i].result ]

\* The history entries of a round, from the gathered responses.
RoundHistory(n, responses) ==
    [ i \in 1..Len(responses) |->
        HistoryEntry(n, get_all_agents[i], responses[i]) ]

\* No exception has left the round, or the workflow.
NoException == "none"

\* The exceptions that end a round without a result: the KeyboardInterrupt that
\* SIGINT raises in the main thread, before the tasks are made or while the
\* gather is awaited, and the exception of a task, which asyncio.gather raises
\* again.
RoundExceptions == { "KeyboardInterrupt", "BaseException" }

\* asyncio.gather(*tasks) raises: a task has ended with an exception.
TaskRaised(tasks) == \E i \in 1..Len(tasks) : tasks[i].result.kind = "raised"

\* The round ends with the exception exc: a KeyboardInterrupt at any point of
\* it, the exception of a task once a task has raised one.
RoundRaises(tasks, exc) ==
    \/ exc = "KeyboardInterrupt"
    \/ exc = "BaseException" /\ TaskRaised(tasks)

\* A DebateEngine given a fresh DebateState, with no round in flight.
EngineFor(topic) ==
    [ state |-> [ topic |-> topic, round |-> 1, history |-> <<>> ],
      tasks |-> <<>>,
      order |-> <<>>,
      raised |-> NoException ]

EngineIdle == EngineFor("")

----------------------------------------------------------------------------
(* graph.py: the workflow debate_round -> should_continue -> synthesize *)

RoundLimit == 3

\* should_continue: the edge taken after debate_round.
should_continue(st) == IF st.round <= RoundLimit THEN "continue" ELSE "synthesize"

\* The node the conditional edge leads to.
NodeAfterRound(st) ==
    IF should_continue(st) = "continue" THEN "debate_round" ELSE "synthesize"

\* final_verdict of a state that has not been synthesized: the empty string.
NoVerdict == [ kind |-> "none" ]

\* "No verdict: Insufficient debate history to make a decision."
InsufficientHistory == [ kind |-> "insufficient" ]

\* "Error generating verdict: ..."
VerdictError == [ kind |-> "error" ]

\* The content of the gateway's reply to the judge's prompt over a history.
VerdictFor(topic, history) ==
    [ kind |-> "content", topic |-> topic, entries |-> Len(history) ]

\* Synthesizer.generate_verdict: no gateway call for an empty history;
\* otherwise the content of the reply, the error text when the gateway raises an
\* Exception, and the exception itself when it is no Exception.
generate_verdict(topic, history, outcome) ==
    IF history = <<>> THEN InsufficientHistory
    ELSE CASE outcome = "return"    -> VerdictFor(topic, history)
           [] outcome = "raise"     -> VerdictError
           [] outcome = "interrupt" -> Propagates("BaseException")

\* The DebateState the workflow is invoked with.
WorkflowInput(topic) ==
    [ topic |-> topic, round |-> 1, history |-> <<>>, final_verdict |-> NoVerdict ]

\* The workflow invoked on a topic, at its entry point.
WorkflowFor(topic) ==
    [ node |-> "debate_round", state |-> WorkflowInput(topic), synthesized |-> 0,
      raised |-> NoException ]

\* No invocation of the workflow.
WorkflowIdle ==
    [ node |-> "none", state |-> WorkflowInput(""), synthesized |-> 0,
      raised |-> NoException ]

----------------------------------------------------------------------------
(* main_updated.py: full_debate and call_ollama *)

ContextWindow == 3
ClipLength == 100

\* The agents full_debate asks, in order: the first NumAgents of its list.
FullDebateAgents ==
    SubSeq(<< "Finance", "Market", "Innovator", "Risk Manager", "Devils Advocate",
              "Operator" >>, 1, NumAgents)

\* What call_ollama may return: "ok", "no", and the empty content.
OllamaTexts == { <<"o", "k">>, <<"n", "o">>, <<>> }

\* history[-3:]
LastEntries(history) ==
    SubSeq(history, Len(history) - Min(ContextWindow, Len(history)) + 1, Len(history))

\* f"{name}: {output[:100]}..."
ClippedEntry(name, output) == [ name |-> name, text |-> Take(output, ClipLength) ]

\* A request to full_debate that has not been received.
OneshotIdle ==
    [ pc |-> "idle", prompt |-> "", idx |-> 0, responses |-> <<>>, history |-> <<>>,
      called |-> <<>>, failed |-> <<>>, result |-> [ kind |-> "none" ] ]

----------------------------------------------------------------------------
(* Initial state: no request received, flag as the module sets it *)

\* No request received yet: every session idle, the flag as the module sets it.
SessionsIdle ==
    /\ debate_cancelled = FALSE
    /\ pc = [s \in AllSessions |-> "idle"]
    /\ request = [s \in AllSessions |-> [topic |-> "", rounds |-> <<>>]]
    /\ args = [s \in AllSessions |-> [topic |-> "", num_rounds |-> 0]]
    /\ state = [s \in AllSessions |-> InitialState("", 0)]
    /\ round_num = [s \in AllSessions |-> 0]
    /\ agent_idx = [s \in AllSessions |-> 0]
    /\ events = [s \in AllSessions |-> <<>>]
    /\ calls = [s \in AllSessions |-> <<>>]
    /\ replies = [s \in AllSessions |-> <<>>]
    /\ nfail = [s \in AllSessions |-> 0]
    /\ stops = 0
    /\ stopAt = [s \in AllSessions |-> 0]
    /\ observed = [s \in AllSessions |-> FALSE]

Init ==
    /\ SessionsIdle
    /\ engine = EngineIdle
    /\ probe = NoProbe
    /\ workflow = WorkflowIdle
    /\ oneshot = OneshotIdle

----------------------------------------------------------------------------
(* Endpoints *)

\* POST /api/debate/stream: builds the generator; its body has not run yet.
debate_stream(s, topic, rounds) ==
    /\ pc[s] = "idle"
    /\ request' = [request EXCEPT ![s] = [topic |-> topic, rounds |-> rounds]]
    /\ args' = [args EXCEPT ![s] =
                   [topic |-> topic, num_rounds |-> RoundsOrDefault(rounds)]]
    /\ pc' = [pc EXCEPT ![s] = "accepted"]
    /\ UNCHANGED <<debate_cancelled, state, round_num, agent_idx, events, calls,
                   nfail, stops, stopAt,
                   observed,
                   replies,
                   engine, probe,
                   workflow, oneshot>>

\* POST /api/debate/stop
stop_debate ==
    /\ stops < MaxStops
    /\ debate_cancelled' = TRUE
    /\ stops' = stops + 1
    /\ stopAt' = [s \in AllSessions |->
                    IF pc[s] \in Streaming /\ stopAt[s] = 0
                    THEN Len(events[s]) ELSE stopAt[s]]
    /\ UNCHANGED <<pc, request, args, state, round_num, agent_idx, events, calls,
                   nfail,
                   observed,
                   replies,
                   engine, probe,
                   workflow, oneshot>>

----------------------------------------------------------------------------
(* run_debate_streaming, one action per stretch between suspension points *)

\* First resumption: reset the flag, build the state, yield start.
Start(s) ==
    /\ pc[s] = "accepted"
    /\ debate_cancelled' = FALSE
    /\ state' = [state EXCEPT ![s] = InitialState(args[s].topic, args[s].num_rounds)]
    /\ Emit(s, EvStart(args[s].topic, args[s].num_rounds))
    /\ pc' = [pc EXCEPT ![s] = "y_start"]
    /\ UNCHANGED <<request, args, round_num, agent_idx, calls, nfail, stops, stopAt,
                   observed,
                   replies,
                   engine, probe,
                   workflow, oneshot>>

\* The round number the `for round_num in range(1, num_rounds + 1)` loop takes
\* when the generator is resumed at the top of the loop.
AtRoundLoop(s) == pc[s] \in {"y_start", "y_round_complete"}
NextRound(s) == IF pc[s] = "y_start" THEN 1 ELSE round_num[s] + 1

\* Mutant of RoundsLeft: the loop runs over range(1, num_rounds).
RoundsLeft_OffByOne(s) == NextRound(s) < args[s].num_rounds

\* range(1, num_rounds + 1) is not exhausted.
RoundsLeft(s) == NextRound(s) <= args[s].num_rounds

\* Top of the round loop, flag set: the loop has bound round_num; yield
\* cancelled.
RoundCancelled(s) ==
    /\ AtRoundLoop(s)
    /\ RoundsLeft(s)
    /\ CancelRequested
    /\ round_num' = [round_num EXCEPT ![s] = NextRound(s)]
    /\ Emit(s, EvCancelled)
    /\ pc' = [pc EXCEPT ![s] = "y_cancelled"]
    /\ observed' = [observed EXCEPT ![s] = TRUE]
    /\ UNCHANGED <<debate_cancelled, request, args, state, agent_idx,
                   calls, nfail, stops, stopAt,
                   replies,
                   engine, probe,
                   workflow, oneshot>>

\* Mutant of RoundStart: the round loop does not look at the flag.
RoundStart_NoCheck(s) ==
    /\ AtRoundLoop(s)
    /\ RoundsLeft(s)
    /\ round_num' = [round_num EXCEPT ![s] = NextRound(s)]
    /\ state' = [state EXCEPT ![s].current_round = NextRound(s),
                              ![s].agent_responses = <<>>]
    /\ Emit(s, EvRoundStart(NextRound(s)))
    /\ pc' = [pc EXCEPT ![s] = "y_round_start"]
    /\ UNCHANGED <<debate_cancelled, request, args, agent_idx, calls, nfail,
                   stops, stopAt, observed, replies,
                   engine, probe,
                   workflow, oneshot>>

\* Top of the round loop, flag clear: set up the round, yield round_start.
RoundStart(s) ==
    /\ AtRoundLoop(s)
    /\ RoundsLeft(s)
    /\ ~CancelRequested
    /\ round_num' = [round_num EXCEPT ![s] = NextRound(s)]
    /\ state' = [state EXCEPT ![s].current_round = NextRound(s),
                              ![s].agent_responses = <<>>]
    /\ Emit(s, EvRoundStart(NextRound(s)))
    /\ pc' = [pc EXCEPT ![s] = "y_round_start"]
    /\ UNCHANGED <<debate_cancelled, request, args, agent_idx, calls, nfail,
                   stops, stopAt,
                   observed,
                   replies,
                   engine, probe,
                   workflow, oneshot>>

\* Mutant of NextAgent: the agent loop starts at the second agent.
NextAgent_SkipFirst(s) == IF pc[s] = "y_round_start" THEN 2 ELSE agent_idx[s] + 1

\* Mutant of AtAgentLoop: the loop is also taken to be at its top while a
\* gateway call is in flight, so a round can be closed over a running call.
AtAgentLoop_InCall(s) == pc[s] \in {"y_round_start", "sleep", "in_call"}

\* The position the `for agent in AGENTS` loop takes when the generator is
\* resumed at the top of the loop.
AtAgentLoop(s) == pc[s] \in {"y_round_start", "sleep"}
NextAgent(s) == IF pc[s] = "y_round_start" THEN 1 ELSE agent_idx[s] + 1

\* AGENTS is not exhausted.
AgentsLeft(s) == NextAgent(s) <= Len(AGENTS)

\* Mutant of AgentCancelled: the `return` after the yield is missing, so the
\* loop goes on to the agent.
AgentCancelled_NoReturn(s) ==
    /\ pc[s] \in {"y_round_start", "sleep"}
    /\ (IF pc[s] = "y_round_start" THEN 1 ELSE agent_idx[s] + 1) <= Len(AGENTS)
    /\ debate_cancelled
    /\ events' = [events EXCEPT ![s] = Append(@, [type |-> "cancelled"])]
    /\ agent_idx' = [agent_idx EXCEPT ![s] =
                        IF pc[s] = "y_round_start" THEN 1 ELSE @ + 1]
    /\ pc' = [pc EXCEPT ![s] = "y_agent_response"]
    /\ observed' = [observed EXCEPT ![s] = TRUE]
    /\ UNCHANGED <<debate_cancelled, request, args, state, round_num, calls, nfail,
                   stops, stopAt,
                   replies,
                   engine, probe,
                   workflow, oneshot>>

\* Top of the agent loop, flag set: the loop has bound the agent; yield
\* cancelled.
AgentCancelled(s) ==
    /\ AtAgentLoop(s)
    /\ AgentsLeft(s)
    /\ CancelRequested
    /\ agent_idx' = [agent_idx EXCEPT ![s] = NextAgent(s)]
    /\ Emit(s, EvCancelled)
    /\ pc' = [pc EXCEPT ![s] = "y_cancelled"]
    /\ observed' = [observed EXCEPT ![s] = TRUE]
    /\ UNCHANGED <<debate_cancelled, request, args, state, round_num,
                   calls, nfail, stops, stopAt,
                   replies,
                   engine, probe,
                   workflow, oneshot>>

\* Top of the agent loop, flag clear: yield agent_start.
AgentStart(s) ==
    /\ AtAgentLoop(s)
    /\ AgentsLeft(s)
    /\ ~CancelRequested
    /\ agent_idx' = [agent_idx EXCEPT ![s] = NextAgent(s)]
    /\ Emit(s, EvAgentStart(AGENTS[NextAgent(s)], round_num[s]))
    /\ pc' = [pc EXCEPT ![s] = "y_agent_start"]
    /\ UNCHANGED <<debate_cancelled, request, args, state, round_num, calls,
                   nfail, stops, stopAt,
                   observed,
                   replies,
                   engine, probe,
                   workflow, oneshot>>

\* agent_node_streaming, flag set: returns no response; on to the sleep.
AgentSkipped(s) ==
    /\ pc[s] = "y_agent_start"
    /\ CancelRequested
    /\ pc' = [pc EXCEPT ![s] = "sleep"]
    /\ UNCHANGED <<debate_cancelled, request, args, state, round_num,
                   agent_idx, events, calls, nfail, stops, stopAt, observed,
                   replies, engine, probe, workflow, oneshot>>

\* Mutant of AgentInvoke: agent_node_streaming does not look at the flag.
AgentInvoke_NoCheck(s) ==
    /\ pc[s] = "y_agent_start"
    /\ calls' = [calls EXCEPT ![s] =
                    Append(@, [ agent |-> AGENTS[agent_idx[s]],
                                round |-> round_num[s],
                                prompt |-> create_agent_prompt(AGENTS[agent_idx[s]],
                                                               state[s]) ])]
    /\ pc' = [pc EXCEPT ![s] = "in_call"]
    /\ UNCHANGED <<debate_cancelled, request, args, state, round_num, agent_idx,
                   events, nfail, stops, stopAt, observed, replies,
                   engine, probe,
                   workflow, oneshot>>

\* agent_node_streaming, flag clear: build the prompt and call the gateway.
AgentInvoke(s) ==
    /\ pc[s] = "y_agent_start"
    /\ ~CancelRequested
    /\ calls' = [calls EXCEPT ![s] =
                    Append(@, [ agent |-> AGENTS[agent_idx[s]],
                                round |-> round_num[s],
                                prompt |-> create_agent_prompt(AGENTS[agent_idx[s]],
                                                               state[s]) ])]
    /\ pc' = [pc EXCEPT ![s] = "in_call"]
    /\ UNCHANGED <<debate_cancelled, request, args, state, round_num, agent_idx,
                   events, nfail, stops, stopAt,
                   observed,
                   replies,
                   engine, probe,
                   workflow, oneshot>>

\* The gateway returns: the response joins the round and is yielded.
AgentReturn(s, response) ==
    /\ pc[s] = "in_call"
    /\ LET agent_resp == AgentResponseOf(AGENTS[agent_idx[s]], state[s], response)
       IN  /\ state' = [state EXCEPT ![s].agent_responses = Append(@, agent_resp)]
           /\ Emit(s, EvAgentResponse(agent_resp))
    /\ pc' = [pc EXCEPT ![s] = "y_agent_response"]
    /\ replies' = [replies EXCEPT ![s] = Append(@, Returned(response))]
    /\ UNCHANGED <<debate_cancelled, request, args, round_num, agent_idx, calls,
                   nfail, stops, stopAt,
                   observed,
                   engine, probe,
                   workflow, oneshot>>

\* Mutant of AgentFail: after a failure the gateway is called again for the
\* same agent.
AgentFail_Retry(s) ==
    /\ pc[s] = "in_call"
    /\ nfail[s] < MaxFailures
    /\ nfail' = [nfail EXCEPT ![s] = @ + 1]
    /\ pc' = [pc EXCEPT ![s] = "y_agent_start"]
    /\ replies' = [replies EXCEPT ![s] = Append(@, Raised)]
    /\ UNCHANGED <<debate_cancelled, request, args, state, round_num, agent_idx,
                   events, calls, stops, stopAt, observed, engine, probe,
                   workflow, oneshot>>

\* Mutant of AgentFail: the failure is turned into a response carrying the
\* error text instead of an empty result.
AgentFail_ErrorText(s) ==
    /\ pc[s] = "in_call"
    /\ nfail[s] < MaxFailures
    /\ nfail' = [nfail EXCEPT ![s] = @ + 1]
    /\ replies' = [replies EXCEPT ![s] = Append(@, Raised)]
    /\ LET agent_resp ==
               AgentResponseOf(AGENTS[agent_idx[s]], state[s], <<"E", "r", "r", "o", "r">>)
       IN  /\ state' = [state EXCEPT ![s].agent_responses = Append(@, agent_resp)]
           /\ Emit(s, EvAgentResponse(agent_resp))
    /\ pc' = [pc EXCEPT ![s] = "y_agent_response"]
    /\ UNCHANGED <<debate_cancelled, request, args, round_num, agent_idx, calls,
                   stops, stopAt, observed,
                   engine, probe,
                   workflow, oneshot>>

\* The gateway raises: agent_node_streaming returns no response; on to the sleep.
AgentFail(s) ==
    /\ pc[s] = "in_call"
    /\ nfail[s] < MaxFailures
    /\ nfail' = [nfail EXCEPT ![s] = @ + 1]
    /\ pc' = [pc EXCEPT ![s] = "sleep"]
    /\ replies' = [replies EXCEPT ![s] = Append(@, Raised)]
    /\ UNCHANGED <<debate_cancelled, request, args, state, round_num, agent_idx,
                   events, calls, stops, stopAt,
                   observed,
                   engine, probe,
                   workflow, oneshot>>

\* Resumed after yielding agent_response: on to the sleep.
AfterAgentResponse(s) ==
    /\ pc[s] = "y_agent_response"
    /\ pc' = [pc EXCEPT ![s] = "sleep"]
    /\ UNCHANGED <<debate_cancelled, request, args, state, round_num,
                   agent_idx, events, calls, nfail, stops, stopAt, observed,
                   replies, engine, probe, workflow, oneshot>>

\* The agent loop is exhausted: round_coordinator, yield round_complete.
RoundComplete(s) ==
    /\ AtAgentLoop(s)
    /\ ~AgentsLeft(s)
    /\ state' = [state EXCEPT ![s] = round_coordinator(@)]
    /\ Emit(s, EvRoundComplete(round_num[s]))
    /\ pc' = [pc EXCEPT ![s] = "y_round_complete"]
    /\ UNCHANGED <<debate_cancelled, request, args, round_num, agent_idx, calls,
                   nfail, stops, stopAt,
                   observed,
                   replies,
                   engine, probe,
                   workflow, oneshot>>

\* The round loop is exhausted, flag clear: yield synthesis_start.
SynthesisStart(s) ==
    /\ AtRoundLoop(s)
    /\ ~RoundsLeft(s)
    /\ ~CancelRequested
    /\ Emit(s, EvSynthesisStart)
    /\ pc' = [pc EXCEPT ![s] = "y_synthesis_start"]
    /\ UNCHANGED <<debate_cancelled, request, args, state, round_num, agent_idx,
                   calls, nfail, stops, stopAt,
                   observed,
                   replies,
                   engine, probe,
                   workflow, oneshot>>

\* Mutant of SynthesisSkipped: the final yield sits inside the `if`, so a
\* session that skips synthesis ends without yielding complete.
SynthesisSkipped_Silent(s) ==
    /\ pc[s] \in {"y_start", "y_round_complete"}
    /\ (IF pc[s] = "y_start" THEN 1 ELSE round_num[s] + 1) > args[s].num_rounds
    /\ debate_cancelled
    /\ pc' = [pc EXCEPT ![s] = "done"]
    /\ observed' = [observed EXCEPT ![s] = TRUE]
    /\ UNCHANGED <<debate_cancelled, request, args, state, round_num, agent_idx,
                   events, calls, nfail, stops, stopAt,
                   replies,
                   engine, probe,
                   workflow, oneshot>>

\* The round loop is exhausted, flag set: synthesis is skipped, yield complete.
SynthesisSkipped(s) ==
    /\ AtRoundLoop(s)
    /\ ~RoundsLeft(s)
    /\ CancelRequested
    /\ Emit(s, EvComplete)
    /\ pc' = [pc EXCEPT ![s] = "y_complete"]
    /\ observed' = [observed EXCEPT ![s] = TRUE]
    /\ UNCHANGED <<debate_cancelled, request, args, state, round_num, agent_idx,
                   calls, nfail, stops, stopAt,
                   replies,
                   engine, probe,
                   workflow, oneshot>>

\* synthesizer_node_streaming: build the prompt and call the gateway.
SynthesisInvoke(s) ==
    /\ pc[s] = "y_synthesis_start"
    /\ calls' = [calls EXCEPT ![s] =
                    Append(@, [ agent |-> SYNTHESIZER, round |-> 0,
                                prompt |-> SynthesizerPrompt(state[s]) ])]
    /\ pc' = [pc EXCEPT ![s] = "in_synth_call"]
    /\ UNCHANGED <<debate_cancelled, request, args, state, round_num, agent_idx,
                   events, nfail, stops, stopAt,
                   observed,
                   replies,
                   engine, probe,
                   workflow, oneshot>>

\* state.update(synthesis_result), yield synthesis.
SynthesisDone(s, synthesis_result) ==
    /\ state' = [state EXCEPT ![s].synthesis = synthesis_result.synthesis,
                              ![s].verdict = synthesis_result.verdict]
    /\ Emit(s, EvSynthesis(synthesis_result))
    /\ pc' = [pc EXCEPT ![s] = "y_synthesis"]

\* The synthesizer's gateway call returns.
SynthesisReturn(s, synthesis_response) ==
    /\ pc[s] = "in_synth_call"
    /\ SynthesisDone(s, SynthesisResult(synthesis_response))
    /\ replies' = [replies EXCEPT ![s] = Append(@, Returned(synthesis_response))]
    /\ UNCHANGED <<debate_cancelled, request, args, round_num, agent_idx, calls,
                   nfail, stops, stopAt,
                   observed,
                   engine, probe,
                   workflow, oneshot>>

\* The synthesizer's gateway call raises.
SynthesisFail(s) ==
    /\ pc[s] = "in_synth_call"
    /\ nfail[s] < MaxFailures
    /\ nfail' = [nfail EXCEPT ![s] = @ + 1]
    /\ SynthesisDone(s, SynthesisFailure)
    /\ replies' = [replies EXCEPT ![s] = Append(@, Raised)]
    /\ UNCHANGED <<debate_cancelled, request, args, round_num, agent_idx, calls,
                   stops, stopAt,
                   observed,
                   engine, probe,
                   workflow, oneshot>>

\* Resumed after yielding synthesis: yield complete.
Complete(s) ==
    /\ pc[s] = "y_synthesis"
    /\ Emit(s, EvComplete)
    /\ pc' = [pc EXCEPT ![s] = "y_complete"]
    /\ UNCHANGED <<debate_cancelled, request, args, state, round_num, agent_idx,
                   calls, nfail, stops, stopAt,
                   observed,
                   replies,
                   engine, probe,
                   workflow, oneshot>>

\* Resumed after yielding cancelled (`return`) or complete (end of the body).
Finish(s) ==
    /\ pc[s] \in {"y_cancelled", "y_complete"}
    /\ pc' = [pc EXCEPT ![s] = "done"]
    /\ UNCHANGED <<debate_cancelled, request, args, state, round_num,
                   agent_idx, events, calls, nfail, stops, stopAt, observed,
                   replies, engine, probe, workflow, oneshot>>

----------------------------------------------------------------------------
(* Specifications *)

\* One step of session s's generator.
Step(s) ==
    \/ Start(s)
    \/ RoundCancelled(s)
    \/ RoundStart(s)
    \/ AgentCancelled(s)
    \/ AgentStart(s)
    \/ AgentSkipped(s)
    \/ AgentInvoke(s)
    \/ \E response \in AgentTexts : AgentReturn(s, response)
    \/ AgentFail(s)
    \/ AfterAgentResponse(s)
    \/ RoundComplete(s)
    \/ SynthesisStart(s)
    \/ SynthesisSkipped(s)
    \/ SynthesisInvoke(s)
    \/ \E synthesis_response \in SynthTexts : SynthesisReturn(s, synthesis_response)
    \/ SynthesisFail(s)
    \/ Complete(s)
    \/ Finish(s)

\* One client, one session.
Next ==
    \/ \E topic \in Topics, rounds \in RoundsValues : debate_stream(1, topic, rounds)
    \/ stop_debate
    \/ Step(1)

Spec == Init /\ [][Next]_vars

\* The same, the consumer pulling every session's events to the end and every
\* gateway call returning or failing.
FairSpec == Spec /\ WF_vars(Step(1))

\* Two clients: requests of one round each, the sessions interleaved at their
\* suspension points.
NextConcurrent ==
    \/ \E s \in AllSessions : debate_stream(s, "T", <<1>>)
    \/ stop_debate
    \/ \E s \in AllSessions : Step(s)

SpecConcurrent == Init /\ [][NextConcurrent]_vars

----------------------------------------------------------------------------
(* DebateEngine.debate_round: dispatch, executor threads, gather *)

\* debate_round up to `await asyncio.gather`: a task per registered agent.
EngineDispatch ==
    /\ engine.tasks = <<>>
    /\ engine.raised = NoException
    /\ engine.state.round <= MaxRounds
    /\ engine' = [ engine EXCEPT !.tasks = TasksFor(engine.state), !.order = <<>> ]
    /\ UNCHANGED <<debate_cancelled, pc, request, args, state, round_num, agent_idx,
                   events, calls, replies, nfail, stops, stopAt, observed, probe,
                   workflow, oneshot>>

\* Mutant of EngineTaskDone: a finished response is at once added to the
\* history the tasks still running read.
EngineTaskDone_SharedHistory(i, outcome) ==
    /\ i \in 1..Len(engine.tasks)
    /\ engine.tasks[i].result = Pending
    /\ LET response == get_agent_response(engine.tasks[i].agent_name,
                                          engine.tasks[i].round_num, outcome)
           entry == HistoryEntry(engine.tasks[i].round_num,
                                 engine.tasks[i].agent_name, response)
       IN  engine' =
             [ engine EXCEPT
                 !.tasks = [ k \in 1..Len(engine.tasks) |->
                               IF k = i
                               THEN [ engine.tasks[k] EXCEPT !.result = response ]
                               ELSE IF engine.tasks[k].result = Pending
                               THEN [ engine.tasks[k] EXCEPT
                                        !.history = Append(@, entry) ]
                               ELSE engine.tasks[k] ],
                 !.order = Append(@, i) ]
    /\ UNCHANGED <<debate_cancelled, pc, request, args, state, round_num, agent_idx,
                   events, calls, replies, nfail, stops, stopAt, observed, probe,
                   workflow, oneshot>>

\* The executor thread of task i finishes get_agent_response.
EngineTaskDone(i, outcome) ==
    /\ i \in 1..Len(engine.tasks)
    /\ engine.tasks[i].result = Pending
    /\ engine' =
         [ engine EXCEPT
             !.tasks[i].result =
                 get_agent_response(engine.tasks[i].agent_name,
                                    engine.tasks[i].round_num, outcome),
             !.order = Append(@, i) ]
    /\ UNCHANGED <<debate_cancelled, pc, request, args, state, round_num, agent_idx,
                   events, calls, replies, nfail, stops, stopAt, observed, probe,
                   workflow, oneshot>>

\* debate_round after the gather: the round's entries appended, round + 1.
EngineGather ==
    /\ engine.tasks # <<>>
    /\ engine.raised = NoException
    /\ \A i \in 1..Len(engine.tasks) : engine.tasks[i].result # Pending
    /\ ~TaskRaised(engine.tasks)
    /\ LET responses == GatherResults(engine.tasks, engine.order)
           new_history == RoundHistory(engine.state.round, responses)
       IN  engine' =
             [ engine EXCEPT
                 !.state.history = engine.state.history \o new_history,
                 !.state.round = engine.state.round + 1,
                 !.tasks = <<>> ]
    /\ UNCHANGED <<debate_cancelled, pc, request, args, state, round_num, agent_idx,
                   events, calls, replies, nfail, stops, stopAt, observed, probe,
                   workflow, oneshot>>

\* debate_round ends with an exception instead of a result, before its tasks
\* are made or with the round in flight: the state it was given stays as it is,
\* and the calls still running in their threads go on.
EngineRaise(exc) ==
    /\ engine.raised = NoException
    /\ RoundRaises(engine.tasks, exc)
    /\ engine' = [ engine EXCEPT !.raised = exc ]
    /\ UNCHANGED <<debate_cancelled, pc, request, args, state, round_num, agent_idx,
                   events, calls, replies, nfail, stops, stopAt, observed, probe,
                   workflow, oneshot>>

InitEngine ==
    /\ SessionsIdle
    /\ engine \in { EngineFor(topic) : topic \in Topics }
    /\ probe = NoProbe
    /\ workflow = WorkflowIdle
    /\ oneshot = OneshotIdle

NextEngine ==
    \/ EngineDispatch
    \/ \E i \in 1..NumAgents, outcome \in GatewayOutcomes :
          EngineTaskDone(i, outcome)
    \/ EngineGather
    \/ \E exc \in RoundExceptions : EngineRaise(exc)

SpecEngine == InitEngine /\ [][NextEngine]_vars

----------------------------------------------------------------------------
(* Verdict extraction applied to a synthesis text *)

ClassifyVerdict ==
    /\ probe.fn = "verdict"
    /\ ~probe.applied
    /\ probe' = [ probe EXCEPT !.result = VerdictOf(probe.arg), !.applied = TRUE ]
    /\ UNCHANGED <<debate_cancelled, pc, request, args, state, round_num, agent_idx,
                   events, calls, replies, nfail, stops, stopAt, observed, engine,
                   workflow, oneshot>>

InitVerdict ==
    /\ SessionsIdle
    /\ engine = EngineIdle
    /\ probe \in { [ fn |-> "verdict", arg |-> text, result |-> "",
                     applied |-> FALSE ] : text \in VerdictInputs }
    /\ workflow = WorkflowIdle
    /\ oneshot = OneshotIdle

NextVerdict == ClassifyVerdict

SpecVerdict == InitVerdict /\ [][NextVerdict]_vars

----------------------------------------------------------------------------
(* graph.py: the nodes of the workflow *)

\* debate_round up to the gather of _run_round_async: a task per agent.
WorkflowDispatch ==
    /\ workflow.node = "debate_round"
    /\ engine.tasks = <<>>
    /\ LET st == [ topic |-> workflow.state.topic,
                   round |-> workflow.state.round,
                   history |-> workflow.state.history ]
       IN  engine' = [ state |-> st, tasks |-> TasksFor(st), order |-> <<>>,
                       raised |-> NoException ]
    /\ UNCHANGED <<debate_cancelled, pc, request, args, state, round_num, agent_idx,
                   events, calls, replies, nfail, stops, stopAt, observed, probe,
                   workflow, oneshot>>

\* The tasks of the round in flight have all finished, none with an exception.
RoundGathered ==
    /\ engine.tasks # <<>>
    /\ \A i \in 1..Len(engine.tasks) : engine.tasks[i].result # Pending
    /\ ~TaskRaised(engine.tasks)

\* debate_round after _run_round_async returned: history extended, round + 1;
\* then the conditional edge.
WorkflowRoundReturn ==
    /\ workflow.node = "debate_round"
    /\ RoundGathered
    /\ LET round_history ==
               RoundHistory(workflow.state.round,
                            GatherResults(engine.tasks, engine.order))
           returned ==
               [ workflow.state EXCEPT
                   !.round = workflow.state.round + 1,
                   !.history = workflow.state.history \o round_history ]
       IN  workflow' = [ workflow EXCEPT !.state = returned,
                                         !.node = NodeAfterRound(returned) ]
    /\ engine' = [ engine EXCEPT !.tasks = <<>> ]
    /\ UNCHANGED <<debate_cancelled, pc, request, args, state, round_num, agent_idx,
                   events, calls, replies, nfail, stops, stopAt, observed, probe,
                   oneshot>>

\* debate_round catches an exception raised in its body, before the round was
\* dispatched or after it was gathered: it returns its input state; then the
\* conditional edge.
WorkflowRoundError ==
    /\ workflow.node = "debate_round"
    /\ engine.tasks = <<>> \/ RoundGathered
    /\ workflow' = [ workflow EXCEPT !.node = NodeAfterRound(workflow.state) ]
    /\ engine' = [ engine EXCEPT !.tasks = <<>> ]
    /\ UNCHANGED <<debate_cancelled, pc, request, args, state, round_num, agent_idx,
                   events, calls, replies, nfail, stops, stopAt, observed, probe,
                   oneshot>>

\* The exceptions that leave a node of the workflow: those that end a round,
\* and the Exception that a print of the node's own `except` handler raises.
NodeExceptions == RoundExceptions \cup { "Exception" }

\* debate_round ends with an exception: one that `except Exception` does not
\* catch, before the dispatch or with the round in flight, or one raised by
\* the handler itself where WorkflowRoundError would have returned the state.
\* The node returns no state and the workflow ends there, without a verdict.
WorkflowRoundRaise(exc) ==
    /\ workflow.node = "debate_round"
    /\ \/ RoundRaises(engine.tasks, exc)
       \/ exc = "Exception" /\ (engine.tasks = <<>> \/ RoundGathered)
    /\ workflow' = [ workflow EXCEPT !.node = "RAISED", !.raised = exc ]
    /\ engine' = IF engine.tasks # <<>> /\ RoundRaises(engine.tasks, exc)
                 THEN [ engine EXCEPT !.raised = exc ]
                 ELSE engine
    /\ UNCHANGED <<debate_cancelled, pc, request, args, state, round_num, agent_idx,
                   events, calls, replies, nfail, stops, stopAt, observed, probe,
                   oneshot>>

\* What the statements of synthesize_verdict around its call may do: run
\* through; raise an Exception in the try block (a print), which the handler
\* turns into the error verdict; raise an Exception in the handler (its own
\* prints), which leaves the node; be interrupted by SIGINT.
BodyOutcomes == { "run", "caught", "handler", "interrupt" }

\* The final_verdict synthesize_verdict returns, or the exception that leaves it.
synthesize_verdict(st, outcome, body) ==
    CASE body = "run"       -> generate_verdict(st.topic, st.history, outcome)
      [] body = "caught"    -> VerdictError
      [] body = "handler"   -> Propagates("Exception")
      [] body = "interrupt" -> Propagates("KeyboardInterrupt")

\* synthesize_verdict, then the edge to END; or, when an exception leaves the
\* node, the end of the workflow without a verdict.
WorkflowSynthesize(outcome, body) ==
    /\ workflow.node = "synthesize"
    /\ LET verdict == synthesize_verdict(workflow.state, outcome, body)
       IN  workflow' =
             IF verdict.kind = "raised"
             THEN [ workflow EXCEPT !.node = "RAISED",
                                    !.raised = verdict.exc,
                                    !.synthesized = @ + 1 ]
             ELSE [ workflow EXCEPT !.state.final_verdict = verdict,
                                    !.node = "END",
                                    !.synthesized = @ + 1 ]
    /\ UNCHANGED <<debate_cancelled, pc, request, args, state, round_num, agent_idx,
                   events, calls, replies, nfail, stops, stopAt, observed, probe,
                   engine, oneshot>>

InitGraph ==
    /\ SessionsIdle
    /\ engine = EngineIdle
    /\ probe = NoProbe
    /\ workflow \in { WorkflowFor(topic) : topic \in Topics }
    /\ oneshot = OneshotIdle

NextGraph ==
    \/ WorkflowDispatch
    \/ \E i \in 1..NumAgents, outcome \in GatewayOutcomes :
          EngineTaskDone(i, outcome)
    \/ WorkflowRoundReturn
    \/ WorkflowRoundError
    \/ \E exc \in NodeExceptions : WorkflowRoundRaise(exc)
    \/ \E outcome \in GatewayOutcomes, body \in BodyOutcomes :
          WorkflowSynthesize(outcome, body)

SpecGraph == InitGraph /\ [][NextGraph]_vars

\* The workflow runs a node whenever one can run.
FairSpecGraph == SpecGraph /\ WF_vars(NextGraph)

----------------------------------------------------------------------------
(* main_updated.py: full_debate *)

\* The call to call_ollama for the k-th agent, with history[-3:] as context.
OllamaCallFor(k, history) ==
    [ name |-> FullDebateAgents[k], context |-> LastEntries(history) ]

\* The synthesizer's call, over the whole history.
OllamaSynthCall(history) == [ name |-> "Synthesizer", context |-> history ]

\* POST /debate: the body runs up to the first await inside call_ollama.
full_debate(prompt) ==
    /\ oneshot.pc = "idle"
    /\ oneshot' = [ oneshot EXCEPT !.pc = "in_call", !.prompt = prompt, !.idx = 1,
                                   !.called = <<OllamaCallFor(1, <<>>)>> ]
    /\ UNCHANGED <<debate_cancelled, pc, request, args, state, round_num, agent_idx,
                   events, calls, replies, nfail, stops, stopAt, observed, probe,
                   engine, workflow>>

\* call_ollama returns for the agent: its response and history entry are
\* appended, and the next call is issued.
OneshotReturn(output) ==
    /\ oneshot.pc = "in_call"
    /\ LET name == FullDebateAgents[oneshot.idx]
           history == Append(oneshot.history, ClippedEntry(name, output))
           last == oneshot.idx = Len(FullDebateAgents)
       IN  oneshot' =
             [ oneshot EXCEPT
                 !.responses = Append(@, [ agent |-> name, response |-> output ]),
                 !.history = history,
                 !.idx = IF last THEN @ ELSE @ + 1,
                 !.pc = IF last THEN "in_synth" ELSE "in_call",
                 !.called = Append(@, IF last THEN OllamaSynthCall(history)
                                      ELSE OllamaCallFor(oneshot.idx + 1, history)) ]
    /\ UNCHANGED <<debate_cancelled, pc, request, args, state, round_num, agent_idx,
                   events, calls, replies, nfail, stops, stopAt, observed, probe,
                   engine, workflow>>

\* call_ollama raises HTTPException(500); full_debate has no handler, so the
\* request ends with that error.
OneshotRaise ==
    /\ oneshot.pc \in {"in_call", "in_synth"}
    /\ oneshot' = [ oneshot EXCEPT !.pc = "raised",
                                   !.failed = Append(@, Last(oneshot.called).name),
                                   !.result = [ kind |-> "http_error" ] ]
    /\ UNCHANGED <<debate_cancelled, pc, request, args, state, round_num, agent_idx,
                   events, calls, replies, nfail, stops, stopAt, observed, probe,
                   engine, workflow>>

\* call_ollama returns for the synthesizer: full_debate returns its result.
OneshotSynthReturn(output) ==
    /\ oneshot.pc = "in_synth"
    /\ oneshot' = [ oneshot EXCEPT
                      !.pc = "returned",
                      !.result = [ kind |-> "result",
                                   topic |-> oneshot.prompt,
                                   agent_responses |-> oneshot.responses,
                                   final_verdict |-> output ] ]
    /\ UNCHANGED <<debate_cancelled, pc, request, args, state, round_num, agent_idx,
                   events, calls, replies, nfail, stops, stopAt, observed, probe,
                   engine, workflow>>

NextOneshot ==
    \/ \E prompt \in Topics : full_debate(prompt)
    \/ \E output \in OllamaTexts : OneshotReturn(output)
    \/ OneshotRaise
    \/ \E output \in OllamaTexts : OneshotSynthReturn(output)

SpecOneshot == Init /\ [][NextOneshot]_vars

----------------------------------------------------------------------------
(* The two dispatch paths *)

\* llm_server.py and graph.py are separate programs: a behaviour is a run of
\* one of them, the streaming session or the workflow.
InitPaths ==
    /\ SessionsIdle
    /\ engine = EngineIdle
    /\ probe = NoProbe
    /\ workflow \in { WorkflowIdle } \cup { WorkflowFor(topic) : topic \in Topics }
    /\ oneshot = OneshotIdle

NextPaths ==
    \/ workflow.node = "none" /\ Next
    \/ workflow.node # "none" /\ NextGraph

SpecPaths == InitPaths /\ [][NextPaths]_vars

----------------------------------------------------------------------------
(* Reading an event sequence *)

Has(evs, type) == \E i \in 1..Len(evs) : evs[i].type = type

IsPrefix(a, b) == Len(a) <= Len(b) /\ SubSeq(b, 1, Len(a)) = a

IsTerminal(ev) == ev.type \in {"complete", "cancelled"}

\* An event reduced to its type, agent and round.
Key(ev) ==
    CASE ev.type = "agent_start" -> <<ev.type, ev.agent, ev.round>>
      [] ev.type = "agent_response" -> <<ev.type, ev.data.agent, ev.data.round>>
      [] ev.type \in {"round_start", "round_complete"} -> <<ev.type, "", ev.round>>
      [] OTHER -> <<ev.type, "", 0>>

Keys(evs) == [i \in 1..Len(evs) |-> Key(evs[i])]

\* The events of a session without its agent_response events.
Skeleton(evs) == SelectSeq(Keys(evs), LAMBDA k : k[1] # "agent_response")

RECURSIVE RoundsSkeleton(_, _)
RoundsSkeleton(n, num_rounds) ==
    IF n > num_rounds THEN <<>>
    ELSE <<<<"round_start", "", n>>>>
         \o [k \in 1..Len(AGENTS) |-> <<"agent_start", AGENTS[k], n>>]
         \o <<<<"round_complete", "", n>>>>
         \o RoundsSkeleton(n + 1, num_rounds)

\* start, the rounds 1..num_rounds with every agent in list order, synthesis_start,
\* synthesis, complete.
FullSkeleton(num_rounds) ==
    <<<<"start", "", 0>>>>
    \o RoundsSkeleton(1, num_rounds)
    \o << <<"synthesis_start", "", 0>>, <<"synthesis", "", 0>>, <<"complete", "", 0>> >>

\* Every agent_response comes right after the agent_start of its agent and round.
ResponsesFollowStarts(evs) ==
    \A i \in 1..Len(evs) :
        evs[i].type = "agent_response" =>
            /\ i > 1
            /\ Key(evs[i - 1]) = <<"agent_start", evs[i].data.agent, evs[i].data.round>>

----------------------------------------------------------------------------
(* C1 *)

\* C1: when stop_debate is never called, the events of a session with
\* num_rounds >= 1 are, in this order: start; for each round 1..num_rounds a
\* round_start, then for each agent of AGENTS in list order an agent_start
\* optionally followed at once by that agent's agent_response, then
\* round_complete; then synthesis_start, synthesis, complete.  At every moment
\* the events are a prefix of that shape, and a finished session has all of it.
C1_EventOrder ==
    \A s \in AllSessions :
        (stops = 0 /\ args[s].num_rounds >= 1) =>
            /\ IsPrefix(Skeleton(events[s]), FullSkeleton(args[s].num_rounds))
            /\ ResponsesFollowStarts(events[s])
            /\ pc[s] = "done" =>
                   Skeleton(events[s]) = FullSkeleton(args[s].num_rounds)

\* A two-round session ran to its end without a stop, one agent call having
\* failed and the others having answered.
C1_Witness ==
    /\ stops = 0
    /\ pc[1] = "done"
    /\ args[1].num_rounds = 2
    /\ nfail[1] = 1
    /\ Has(events[1], "agent_response")

----------------------------------------------------------------------------
(* C2 *)

\* C2: a terminal event (complete or cancelled) is always the last event of its
\* session, so there is at most one; and, the gateway calls returning or failing
\* and the consumer pulling, every session that was accepted ends having
\* emitted one, whenever stop_debate is called and whichever calls fail.
C2_TerminalEvent ==
    /\ [](\A s \in AllSessions : \A i \in 1..Len(events[s]) :
            IsTerminal(events[s][i]) => i = Len(events[s]))
    /\ (pc[1] = "accepted") ~>
           (pc[1] = "done" /\ events[1] # <<>> /\ IsTerminal(Last(events[1])))

\* A session ended with complete although a stop_debate arrived while it was
\* streaming and an agent call failed.
C2_Witness ==
    /\ pc[1] = "done"
    /\ Last(events[1]).type = "complete"
    /\ stopAt[1] > 0
    /\ nfail[1] > 0

----------------------------------------------------------------------------
(* C3 *)

\* C3: a cancelled event comes after the start event and is the last event of its
\* session in every state, so it occurs at most once and nothing follows it.
C3_CancelledIsFinal ==
    \A s \in AllSessions : \A i \in 1..Len(events[s]) :
        events[s][i].type = "cancelled" =>
            /\ i > 1
            /\ events[s][1].type = "start"
            /\ i = Len(events[s])

\* A session was cancelled in the middle of a round and its generator returned.
C3_Witness ==
    /\ pc[1] = "done"
    /\ Last(events[1]).type = "cancelled"
    /\ Has(events[1], "agent_response")

----------------------------------------------------------------------------
(* C4 *)

\* C4: a session whose generator found the flag set at one of its checks (top
\* of the round loop, top of the agent loop, the check before synthesis) ends
\* with cancelled and has neither a synthesis nor a complete event; and every
\* complete event has a synthesis_start and then a synthesis event before it.
\* Stated for the sessions of num_rounds >= 1.
C4_CancellationDistinct ==
    \A s \in AllSessions :
        args[s].num_rounds >= 1 =>
            /\ observed[s] =>
                   /\ Last(events[s]).type = "cancelled"
                   /\ ~Has(events[s], "synthesis")
                   /\ ~Has(events[s], "complete")
            /\ \A i \in 1..Len(events[s]) :
                   events[s][i].type = "complete" =>
                       \E j, k \in 1..Len(events[s]) :
                           /\ j < k /\ k < i
                           /\ events[s][j].type = "synthesis_start"
                           /\ events[s][k].type = "synthesis"

----------------------------------------------------------------------------
(* C5 *)

\* The first stop_debate of session s's lifetime arrived while s was suspended
\* at the yield of round_complete(n).
StoppedAfterRound(s, n) ==
    /\ stopAt[s] > 0
    /\ Key(events[s][stopAt[s]]) = <<"round_complete", "", n>>

\* C5: with a single session of num_rounds >= 2, if stop_debate is called after
\* round_complete(1) was emitted and before round 2 starts, round_start(2) is
\* never emitted, the only event that follows is cancelled, and the finished
\* session ends with it.
C5_StopBetweenRounds ==
    \A s \in AllSessions :
        (args[s].num_rounds >= 2 /\ StoppedAfterRound(s, 1)) =>
            /\ \A i \in 1..Len(events[s]) :
                   Key(events[s][i]) # <<"round_start", "", 2>>
            /\ Len(events[s]) > stopAt[s] =>
                   /\ Len(events[s]) = stopAt[s] + 1
                   /\ Last(events[s]).type = "cancelled"
            /\ pc[s] = "done" => Last(events[s]).type = "cancelled"

\* A session of three rounds was stopped between round 1 and round 2 and has
\* finished.
C5_Witness ==
    /\ args[1].num_rounds = 3
    /\ StoppedAfterRound(1, 1)
    /\ pc[1] = "done"

----------------------------------------------------------------------------
(* C6 *)

\* The gateway calls made for the agents of AGENTS (not the synthesizer's).
AgentCalls(cs) == SelectSeq(cs, LAMBDA c : c.agent # SYNTHESIZER)

\* C6: with a single session, once stop_debate has set the flag while the
\* session was streaming, no step of the session issues a gateway call for an
\* agent or emits a round_start or an agent_start.
C6_NoNewWorkAfterStop ==
    [][ \A s \in AllSessions :
            stopAt[s] > 0 =>
                /\ AgentCalls(calls'[s]) = AgentCalls(calls[s])
                /\ events'[s] # events[s] =>
                       Last(events'[s]).type \notin {"round_start", "agent_start"}
      ]_vars

\* stop_debate arrived while the session was suspended at the yield of an
\* agent_start; agent_node_streaming then found the flag set and returned
\* without calling the gateway.
C6_Witness ==
    /\ stopAt[1] > 0
    /\ stopAt[1] = Len(events[1])
    /\ Last(events[1]).type = "agent_start"
    /\ pc[1] = "sleep"
    /\ replies[1] = <<>>

----------------------------------------------------------------------------
(* C7 *)

\* The generator of s has started and has not yet yielded a terminal event.
Unfinished(s) == pc[s] \in Streaming \ {"y_cancelled", "y_complete"}

\* C7: once stop_debate has set the flag while a session was streaming, the
\* flag stays set as long as that session has not reached its terminal event,
\* so its next check finds it set.
C7_FlagSetOnce ==
    \A s \in AllSessions :
        (stopAt[s] > 0 /\ Unfinished(s)) => debate_cancelled

----------------------------------------------------------------------------
(* C8 *)

\* The round_start and round_complete events of a session, in order.
RoundEvents(evs) ==
    SelectSeq(Keys(evs), LAMBDA k : k[1] \in {"round_start", "round_complete"})

RECURSIVE RoundPairs(_, _)
RoundPairs(n, num_rounds) ==
    IF n > num_rounds THEN <<>>
    ELSE << <<"round_start", "", n>>, <<"round_complete", "", n>> >>
         \o RoundPairs(n + 1, num_rounds)

\* C8: for num_rounds >= 1, a session that reaches synthesis_start has by then
\* emitted exactly the pairs round_start(n), round_complete(n) for
\* n = 1..num_rounds, in order, whichever agent calls failed; and a session
\* that no stop_debate reached while it was streaming does reach
\* synthesis_start.
C8_RoundPairs ==
    \A s \in AllSessions :
        args[s].num_rounds >= 1 =>
            /\ IsPrefix(RoundEvents(events[s]), RoundPairs(1, args[s].num_rounds))
            /\ Has(events[s], "synthesis_start") =>
                   RoundEvents(events[s]) = RoundPairs(1, args[s].num_rounds)
            /\ (stopAt[s] = 0 /\ pc[s] = "done") => Has(events[s], "synthesis_start")

\* A session of three rounds reached synthesis although every agent call of one
\* of its rounds failed.
C8_Witness ==
    /\ args[1].num_rounds = 3
    /\ Has(events[1], "synthesis_start")
    /\ \E n \in 1..3 : \A i \in 1..Len(events[1]) :
           Key(events[1][i])[1] = "agent_response" => Key(events[1][i])[3] # n

----------------------------------------------------------------------------
(* C9 *)

\* rounds < 1 or an empty topic.
InvalidRequest(r) == r.topic = "" \/ (r.rounds # <<>> /\ r.rounds[1] < 1)

\* C9: a request with rounds < 1 or with an empty topic produces no start event
\* and no gateway call.
C9_InvalidRejected ==
    \A s \in AllSessions :
        (pc[s] # "idle" /\ InvalidRequest(request[s])) =>
            (events[s] = <<>> /\ calls[s] = <<>>)

----------------------------------------------------------------------------
(* C10 *)

AgentSet == {AGENTS[k] : k \in 1..Len(AGENTS)}

\* The gateway call made for agent a in round n got the reply `ok`.
Replied(s, a, n, ok) ==
    \E i \in 1..Len(replies[s]) :
        /\ calls[s][i].agent = a
        /\ calls[s][i].round = n
        /\ replies[s][i].ok = ok

\* The session has finished, untouched by stop_debate; in each of its rounds
\* the call for agent a failed and the calls for the other agents returned.
OnlyAgentFailed(s, a) ==
    /\ pc[s] = "done"
    /\ stopAt[s] = 0
    /\ args[s].num_rounds >= 1
    /\ \A n \in 1..args[s].num_rounds :
           /\ Replied(s, a, n, FALSE)
           /\ \A b \in AgentSet \ {a} : Replied(s, b, n, TRUE)

\* Every round ran the other agents and was completed, all_rounds holds nothing
\* of agent a, and the events end with synthesis, complete.
FailureIsolated(s, a) ==
    /\ \A n \in 1..args[s].num_rounds :
           /\ \E i \in 1..Len(events[s]) :
                  Key(events[s][i]) = <<"round_complete", "", n>>
           /\ \A b \in AgentSet \ {a} : \E i \in 1..Len(events[s]) :
                  Key(events[s][i]) = <<"agent_response", b, n>>
    /\ \A r \in 1..Len(state[s].all_rounds) :
           \A k \in 1..Len(state[s].all_rounds[r]) :
               state[s].all_rounds[r][k].agent # a
    /\ Len(events[s]) >= 2
    /\ events[s][Len(events[s]) - 1].type = "synthesis"
    /\ Last(events[s]).type = "complete"

\* The text carried by the synthesis event of a finished session.
SynthesisText(s) == events[s][Len(events[s]) - 1].data.synthesis

\* C10 as claimed: if the gateway fails for one agent in every round and
\* succeeds for the others, with no cancellation, every round still runs the
\* other agents and completes, all_rounds holds no response of the failing
\* agent, and the session ends synthesis, complete with a non-empty synthesis
\* text.
C10_NonEmptySynthesis ==
    \A s \in AllSessions : \A a \in AgentSet :
        OnlyAgentFailed(s, a) =>
            /\ FailureIsolated(s, a)
            /\ SynthesisText(s) # <<>>

\* C10 as amended: the same, the synthesis text being "Synthesis unavailable"
\* when the synthesizer's call failed and otherwise the gateway's text
\* stripped, which is empty exactly when the gateway returned a blank text.
C10_FailureIsolated ==
    \A s \in AllSessions : \A a \in AgentSet :
        OnlyAgentFailed(s, a) =>
            /\ FailureIsolated(s, a)
            /\ SynthesisText(s) =
                   IF Last(replies[s]).ok THEN Strip(Last(replies[s]).text)
                   ELSE SynthesisUnavailable
            /\ SynthesisText(s) = <<>> <=>
                   /\ Last(replies[s]).ok
                   /\ \A i \in 1..Len(Last(replies[s]).text) :
                          IsSpace(Last(replies[s]).text[i])

\* A session of two rounds finished with the first agent's call having failed in
\* both rounds, the other agents' calls and the synthesizer's having returned.
C10_Witness ==
    /\ OnlyAgentFailed(1, AGENTS[1])
    /\ args[1].num_rounds = 2
    /\ Last(replies[1]).ok
    /\ SynthesisText(1) # <<>>

----------------------------------------------------------------------------
(* C11 *)

\* The gateway call of the synthesizer has been made and has raised.
SynthesisCallFailed(s) ==
    /\ calls[s] # <<>>
    /\ Last(calls[s]).agent = SYNTHESIZER
    /\ Len(replies[s]) = Len(calls[s])
    /\ ~Last(replies[s]).ok

\* The result of a failed synthesis as the contract states it.
UnderReviewSentinel ==
    [ synthesis |-> SynthesisUnavailable, verdict |-> "UNDER REVIEW" ]

\* C11: when the synthesizer's gateway call fails, synthesizer_node_streaming
\* returns the text "Synthesis unavailable" with the verdict UNDER REVIEW, the
\* session emits a synthesis event carrying that result, and it ends with
\* synthesis followed by complete.
C11_FailedSynthesisUnderReview ==
    \A s \in AllSessions :
        (args[s].num_rounds >= 1 /\ SynthesisCallFailed(s)) =>
            /\ Last(events[s]).type \in {"synthesis", "complete"}
            /\ \A i \in 1..Len(events[s]) :
                  events[s][i].type = "synthesis" =>
                      events[s][i].data = UnderReviewSentinel
            /\ state[s].synthesis = SynthesisUnavailable
            /\ state[s].verdict = "UNDER REVIEW"
            /\ pc[s] = "done" =>
                  /\ Last(events[s]).type = "complete"
                  /\ events[s][Len(events[s]) - 1].type = "synthesis"

----------------------------------------------------------------------------
(* C12 *)

Verdicts == { "APPROVED", "REJECTED", "CONDITIONAL APPROVAL", "UNDER REVIEW" }

\* C12: in every state of a session, from the creation of its DebateState to
\* complete or cancelled, the verdict field is one of APPROVED, REJECTED,
\* CONDITIONAL APPROVAL and UNDER REVIEW, and it is UNDER REVIEW as long as no
\* synthesis has been produced.
C12_VerdictAlwaysSet ==
    \A s \in AllSessions :
        (pc[s] \in Streaming \cup {"done"} /\ args[s].num_rounds >= 1) =>
            /\ state[s].verdict \in Verdicts
            /\ ~Has(events[s], "synthesis") => state[s].verdict = "UNDER REVIEW"

----------------------------------------------------------------------------
(* C13 *)

\* The keyword groups as the contract names them.
ApproveGroup == { <<"a", "p", "p", "r", "o", "v", "e">>,
                  <<"p", "r", "o", "c", "e", "e", "d">> }
RejectGroup == { <<"r", "e", "j", "e", "c", "t">>,
                 <<"d", "e", "c", "l", "i", "n", "e">> }
ModifyGroup == { <<"m", "o", "d", "i", "f", "y">>,
                 <<"c", "o", "n", "d", "i", "t", "i", "o", "n", "a", "l">> }

\* The lower-cased text contains a keyword of the group.
Mentions(text, group) == \E w \in group : Contains(Lower(text), w)

\* The verdict extraction has been applied to a synthesis text.
Classified == probe.fn = "verdict" /\ probe.applied

\* C13: the verdict of a synthesis text is APPROVED if its lower-cased form
\* contains an approve-group keyword; otherwise REJECTED if it contains a
\* reject-group keyword; otherwise CONDITIONAL APPROVAL if it contains a
\* modify-group keyword; otherwise UNDER REVIEW, whatever combination of
\* groups the text contains.
C13_VerdictPriority ==
    Classified =>
        LET a == Mentions(probe.arg, ApproveGroup)
            r == Mentions(probe.arg, RejectGroup)
            m == Mentions(probe.arg, ModifyGroup)
        IN  /\ a => probe.result = "APPROVED"
            /\ (~a /\ r) => probe.result = "REJECTED"
            /\ (~a /\ ~r /\ m) => probe.result = "CONDITIONAL APPROVAL"
            /\ (~a /\ ~r /\ ~m) => probe.result = "UNDER REVIEW"

\* A text with keywords of all three groups, the reject keyword first, has been
\* classified.
C13_Witness ==
    /\ Classified
    /\ Mentions(probe.arg, ApproveGroup)
    /\ Mentions(probe.arg, RejectGroup)
    /\ Mentions(probe.arg, ModifyGroup)
    /\ Contains(SubSeq(probe.arg, 1, 6), <<"r", "e", "j", "e", "c", "t">>)
    /\ probe.result = "APPROVED"

----------------------------------------------------------------------------
(* C14 *)

\* C14 as claimed: a text containing "we recommend you approve this plan" is
\* classified APPROVED, one containing "this should be rejected" and no
\* approve-group keyword REJECTED, and one containing "approve with
\* modifications" CONDITIONAL APPROVAL.
C14_PhraseVerdicts ==
    Classified =>
        /\ Contains(probe.arg, RecommendApprove) => probe.result = "APPROVED"
        /\ (Contains(probe.arg, ShouldBeRejected)
              /\ ~Mentions(probe.arg, ApproveGroup)) => probe.result = "REJECTED"
        /\ Contains(probe.arg, ApproveWithModifications) =>
              probe.result = "CONDITIONAL APPROVAL"

\* C14: a text containing "we recommend you approve this plan" is classified
\* APPROVED, one containing "this should be rejected" and no approve-group
\* keyword REJECTED, and one containing "approve with modifications" APPROVED,
\* because it contains the approve-group keyword "approve".
C14_PhraseVerdictsByPriority ==
    Classified =>
        /\ Contains(probe.arg, RecommendApprove) => probe.result = "APPROVED"
        /\ (Contains(probe.arg, ShouldBeRejected)
              /\ ~Mentions(probe.arg, ApproveGroup)) => probe.result = "REJECTED"
        /\ Contains(probe.arg, ApproveWithModifications) =>
              probe.result = "APPROVED"

\* The text "approve with modifications", alone, has been classified.
C14_Witness ==
    /\ Classified
    /\ probe.arg = ApproveWithModifications
    /\ probe.result = "APPROVED"

----------------------------------------------------------------------------
(* C15 *)

\* The entries round r contributed to the engine's history.
EntriesOfRound(r) ==
    SubSeq(engine.state.history, (r - 1) * Len(get_all_agents) + 1,
           r * Len(get_all_agents))

\* The rounds the engine has closed.
ClosedRounds == 1..(engine.state.round - 1)

\* C15: in the concurrent dispatch path, whatever the order in which the
\* agents' gateway calls complete, the entries of every round are in registry
\* order: the i-th entry of round r is labelled with the i-th agent of
\* get_all_agents() and holds the response to that agent's call of round r.
C15_RegistryOrder ==
    /\ Len(engine.state.history) = Len(get_all_agents) * (engine.state.round - 1)
    /\ \A r \in ClosedRounds : \A i \in 1..Len(get_all_agents) :
          LET entry == EntriesOfRound(r)[i]
          IN  /\ entry.round = r
              /\ entry.agent = get_all_agents[i]
              /\ entry.response \in
                    { ContentFor(get_all_agents[i], r), ErrorResponse }

\* A round has been closed whose calls completed last agent first, all of them
\* with a reply of the gateway.
C15_Witness ==
    /\ engine.tasks = <<>>
    /\ engine.state.round > 1
    /\ engine.order # <<>>
    /\ engine.order[1] = Len(get_all_agents)
    /\ \A i \in 1..Len(get_all_agents) :
          Last(engine.state.history).response.kind = "content"
          /\ EntriesOfRound(engine.state.round - 1)[i].response.kind = "content"

----------------------------------------------------------------------------
(* C16 *)

\* C16: when the synthesizer of a session is reached with no completed round
\* (all_rounds empty, every agent call of every round having failed), it does
\* not invoke the gateway: no call is issued for the synthesizer with an empty
\* transcript.
C16_NoGatewayOnEmptyHistory ==
    \A s \in AllSessions :
        args[s].num_rounds >= 1 =>
            \A i \in 1..Len(calls[s]) :
                calls[s][i].agent = SYNTHESIZER =>
                    calls[s][i].prompt.transcript # <<>>

----------------------------------------------------------------------------
(* C17 *)

\* The session has yielded complete, every gateway call it made returned, and
\* no stop_debate arrived while it was streaming.
CleanRun(s) ==
    /\ events[s] # <<>>
    /\ Last(events[s]).type = "complete"
    /\ args[s].num_rounds >= 1
    /\ stopAt[s] = 0
    /\ \A i \in 1..Len(replies[s]) : replies[s][i].ok

\* The positions of the events of a type.
Positions(evs, type) == { i \in 1..Len(evs) : evs[i].type = type }

\* C17: when every gateway call succeeds and there is no cancellation, at the
\* complete event all_rounds holds exactly num_rounds records, the record of
\* round n holding one response per agent of AGENTS, in AGENTS order and given
\* in round n; and the events hold exactly one synthesis event, directly before
\* complete.
C17_FullHistory ==
    \A s \in AllSessions :
        CleanRun(s) =>
            /\ Len(state[s].all_rounds) = args[s].num_rounds
            /\ \A n \in 1..Len(state[s].all_rounds) :
                  /\ Len(state[s].all_rounds[n]) = Len(AGENTS)
                  /\ \A k \in 1..Len(state[s].all_rounds[n]) :
                        /\ state[s].all_rounds[n][k].agent = AGENTS[k]
                        /\ state[s].all_rounds[n][k].round = n
            /\ Positions(events[s], "synthesis") = { Len(events[s]) - 1 }
            /\ Positions(events[s], "complete") = { Len(events[s]) }

\* A clean run of at least two rounds has finished.
C17_Witness ==
    /\ CleanRun(1)
    /\ pc[1] = "done"
    /\ args[1].num_rounds >= 2
    /\ Len(calls[1]) = args[1].num_rounds * Len(AGENTS) + 1

----------------------------------------------------------------------------
(* C19 *)

\* The three blocks of task instructions of create_agent_prompt.
Opening == "round1"
Rebuttal == "round2"
Closing == "final"

\* The task instructions the contract assigns to round n of max_rounds.
TaskByPosition(n, max_rounds) ==
    IF n = 1 THEN Opening
    ELSE IF n = max_rounds THEN Closing
    ELSE Rebuttal

\* C19: in a session of max_rounds >= 2 rounds, the prompt built for an agent
\* in round n carries the opening instructions when n = 1, the closing-argument
\* instructions when n = max_rounds, and the rebuttal instructions in between.
C19_TaskByPosition ==
    \A s \in AllSessions :
        args[s].num_rounds >= 2 =>
            \A i \in 1..Len(calls[s]) :
                calls[s][i].agent # SYNTHESIZER =>
                    calls[s][i].prompt.task =
                        TaskByPosition(calls[s][i].round, args[s].num_rounds)

----------------------------------------------------------------------------
(* C20 *)

\* The first stop_debate of the session arrived after agent_start was yielded
\* for an agent and before anything else was: while the agent's gateway call
\* was about to be made, in flight, or just over.
StoppedAroundCall(s) ==
    /\ stopAt[s] > 0
    /\ events[s][stopAt[s]].type = "agent_start"

\* C20: if the flag becomes set while an agent's gateway call is in flight, the
\* result of the call is discarded: no agent_response event follows for it, the
\* response is not in the state's agent_responses or all_rounds, and no further
\* round starts.
C20_InFlightResultDiscarded ==
    \A s \in AllSessions :
        (args[s].num_rounds >= 1 /\ StoppedAroundCall(s)) =>
            LET started == events[s][stopAt[s]]
                later == SubSeq(events[s], stopAt[s] + 1, Len(events[s]))
                ByThisCall(resp) ==
                    resp.agent = started.agent /\ resp.round = started.round
            IN  /\ ~Has(later, "agent_response")
                /\ ~Has(later, "round_start")
                /\ \A k \in 1..Len(state[s].agent_responses) :
                      ~ByThisCall(state[s].agent_responses[k])
                /\ \A n \in 1..Len(state[s].all_rounds) :
                      \A k \in 1..Len(state[s].all_rounds[n]) :
                          ~ByThisCall(state[s].all_rounds[n][k])

----------------------------------------------------------------------------
(* C21 *)

\* The calls of round n issued before the i-th call of the session whose
\* gateway reply was a text, as "<agent>: <stripped reply>" lines in the order
\* of the calls.
RECURSIVE SaidBefore(_, _, _)
SaidBefore(s, i, n) ==
    IF i <= 1 THEN <<>>
    ELSE LET j == i - 1
             rest == SaidBefore(s, j, n)
         IN  IF calls[s][j].round = n /\ replies[s][j].ok
             THEN Append(rest, [ agent |-> calls[s][j].agent,
                                 response |-> Strip(replies[s][j].text) ])
             ELSE rest

\* C21: in run_debate_streaming, the prompt built for an agent in round n lists
\* as the current round's responses exactly the responses of the agents
\* dispatched before it in round n whose calls succeeded, in dispatch order,
\* and so none of an agent dispatched later.
C21_PromptSeesEarlierAgents ==
    \A s \in AllSessions : \A i \in 1..Len(calls[s]) :
        calls[s][i].agent # SYNTHESIZER =>
            calls[s][i].prompt.current = SaidBefore(s, i, calls[s][i].round)

\* The third agent has been given, in round 1, a prompt that lists the second
\* agent's response only, the first agent's call having failed, and in round 2
\* a prompt that lists the responses of the first and of the second agent, in
\* that order.
C21_Witness ==
    /\ Len(AGENTS) >= 3
    /\ \E i, j \in 1..Len(calls[1]) :
          /\ calls[1][i].agent = AGENTS[3] /\ calls[1][i].round = 1
          /\ ~replies[1][i - 2].ok
          /\ Len(calls[1][i].prompt.current) = 1
          /\ calls[1][i].prompt.current[1].agent = AGENTS[2]
          /\ calls[1][j].agent = AGENTS[3] /\ calls[1][j].round = 2
          /\ Len(calls[1][j].prompt.current) = 2
          /\ calls[1][j].prompt.current[1].agent = AGENTS[1]
          /\ calls[1][j].prompt.current[2].agent = AGENTS[2]

----------------------------------------------------------------------------
(* C22 *)

\* C22: in the concurrent dispatch path, at every moment of a round every
\* agent's input is the history as of the dispatch of the round (the same for
\* all agents), and it holds no entry of the round being run, whichever calls
\* have already completed.
C22_SameHistoryForAll ==
    \A i \in 1..Len(engine.tasks) :
        /\ engine.tasks[i].history = engine.state.history
        /\ engine.tasks[i].round_num = engine.state.round
        /\ \A k \in 1..Len(engine.tasks[i].history) :
              engine.tasks[i].history[k].round < engine.tasks[i].round_num

\* In the second round one call has completed and another is still running on
\* the history of round 1.
C22_Witness ==
    /\ engine.state.round = 2
    /\ \E i, k \in 1..Len(engine.tasks) :
          /\ engine.tasks[i].result # Pending
          /\ engine.tasks[k].result = Pending
          /\ engine.tasks[k].history # <<>>

----------------------------------------------------------------------------
(* C23 *)

\* Sequential path: a round_complete(n) has been yielded only if every call of
\* round n has been answered, and round_start(n + 1) and the calls of round
\* n + 1 come only after round_complete(n).
BarrierStreaming(s) ==
    /\ \A p \in 1..Len(events[s]) :
          /\ events[s][p].type = "round_complete" =>
                \A j \in 1..Len(calls[s]) :
                    calls[s][j].round = events[s][p].round => j <= Len(replies[s])
          /\ (events[s][p].type = "round_start" /\ events[s][p].round > 1) =>
                \E q \in 1..(p - 1) :
                    events[s][q] = EvRoundComplete(events[s][p].round - 1)
    /\ \A j \in 1..Len(calls[s]) :
          calls[s][j].round > 1 =>
              \E q \in 1..Len(events[s]) :
                  events[s][q] = EvRoundComplete(calls[s][j].round - 1)

\* Concurrent path: the history holds the entries of a round only once no call
\* of that round is running, and the calls in flight are those of the round
\* after the closed ones, all of which are in the history in full.
BarrierWorkflow ==
    /\ Len(workflow.state.history) = Len(get_all_agents) * (workflow.state.round - 1)
    /\ \A k \in 1..Len(workflow.state.history) :
          workflow.state.history[k].round < workflow.state.round
    /\ workflow.node # "none" =>
          \A i \in 1..Len(engine.tasks) :
              /\ engine.tasks[i].round_num = workflow.state.round
              /\ engine.tasks[i].history = workflow.state.history

\* C23: in both dispatch paths round n is closed only after every agent call
\* dispatched in round n has returned, and round n + 1 is not started before
\* round n is closed.
C23_RoundBarrier ==
    /\ \A s \in AllSessions : BarrierStreaming(s)
    /\ BarrierWorkflow

\* The workflow is running the calls of its second round, one of them done.
C23_Witness ==
    /\ workflow.node = "debate_round"
    /\ workflow.state.round = 2
    /\ \E i, k \in 1..Len(engine.tasks) :
          engine.tasks[i].result = Pending /\ engine.tasks[k].result # Pending

----------------------------------------------------------------------------
(* C24 *)

\* C24: in run_debate_streaming the gateway is invoked at most once for an
\* agent in a round, whether that call returns or raises, and at most once for
\* the synthesizer in a session.
C24_NoRetries ==
    \A s \in AllSessions : \A i, j \in 1..Len(calls[s]) :
        (i < j /\ calls[s][i].agent = calls[s][j].agent) =>
            /\ calls[s][i].agent # SYNTHESIZER
            /\ calls[s][i].round # calls[s][j].round

\* A session has finished in which a call for an agent and the call for the
\* synthesizer raised.
C24_Witness ==
    /\ pc[1] = "done"
    /\ Len(calls[1]) = args[1].num_rounds * Len(AGENTS) + 1
    /\ ~Last(replies[1]).ok
    /\ ~replies[1][1].ok

----------------------------------------------------------------------------
(* C25 *)

\* C25: in the engine path a gateway failure for an agent yields no
\* contribution: the error is not raised to the engine, and neither the
\* history nor the input of a later task holds an entry made of a failure.
C25_FailureLeavesNoEntry ==
    /\ \A k \in 1..Len(engine.state.history) :
          engine.state.history[k].response # ErrorResponse
    /\ \A i \in 1..Len(engine.tasks) :
          \A k \in 1..Len(engine.tasks[i].history) :
              engine.tasks[i].history[k].response # ErrorResponse

----------------------------------------------------------------------------
(* C26 *)

\* C26: a step of a session leaves all_rounds as it is, or appends to it one
\* record, the responses of the round that round_coordinator closes as
\* round_complete is yielded; no record already in all_rounds is changed, moved
\* or removed.
C26_AppendOnly ==
    [][ \A s \in AllSessions :
          \/ state'[s].all_rounds = state[s].all_rounds
          \/ /\ state'[s].all_rounds =
                    Append(state[s].all_rounds, state[s].agent_responses)
             /\ events'[s] = Append(events[s], EvRoundComplete(round_num[s])) ]_vars

\* A session of more than one round has finished, with every round's record
\* in all_rounds after synthesis.
C26_Witness ==
    /\ pc[1] = "done"
    /\ Len(state[1].all_rounds) >= 2
    /\ Has(events[1], "synthesis")

----------------------------------------------------------------------------
(* C27 *)

\* C27: in full_debate the failure of an agent's gateway call does not abort
\* the debate: the request does not end with the error, and once it has ended
\* every agent and the synthesizer have been called and a result carrying a
\* final verdict has been returned.
C27_AgentFailureTolerated ==
    (oneshot.failed # <<>> /\ oneshot.failed[1] # "Synthesizer") =>
        /\ oneshot.pc # "raised"
        /\ oneshot.pc = "returned" =>
              /\ Len(oneshot.called) = Len(FullDebateAgents) + 1
              /\ oneshot.result.kind = "result"

----------------------------------------------------------------------------
(* C28 *)

\* C28: in every state of a session the record at position i of all_rounds
\* holds only responses whose round field is i (positions counted from 1), so
\* the "Round i" headings derived from the position name the round in which
\* the responses were given; also when all agents failed in some round.
C28_LabelsAligned ==
    \A s \in AllSessions :
        \A i \in 1..Len(state[s].all_rounds) :
            \A k \in 1..Len(state[s].all_rounds[i]) :
                state[s].all_rounds[i][k].round = i

----------------------------------------------------------------------------
(* C29 *)

\* The sessions whose events hold cancelled.
CancelledSessions == { s \in AllSessions : Has(events[s], "cancelled") }

\* C29: with two sessions streaming concurrently, one stop_debate call ends at
\* most one of them with cancelled.
C29_OneStopOneSession ==
    stops <= 1 => Cardinality(CancelledSessions) <= 1

----------------------------------------------------------------------------
(* C30 *)

\* C30: the workflow started with round = 1 terminates: it eventually reaches
\* END having run synthesize_verdict exactly once, also when debate_round
\* catches an exception and returns its input state unchanged.  Runs that an
\* uncaught exception (KeyboardInterrupt, SystemExit) ends are left aside: the
\* claim is read of the runs in which every exception is one the nodes catch.
C30_WorkflowTerminates ==
    <>(\/ workflow.node = "END" /\ workflow.synthesized = 1
       \/ workflow.node = "RAISED")

====
